---- MODULE Spec2Model ----
(***************************************************************************)
(* A model of the AuroraSkins submission client (src/src/app.ts) and of    *)
(* its OAuth code-exchange endpoint (src/api/github-callback.js).          *)
(*                                                                         *)
(* Strings whose characters matter (file texts, names, authors) are        *)
(* sequences of one-character strings; JavaScript indices are 0-based and  *)
(* kept 0-based here (CharAt), with -1 for "not found" as in the source.   *)
(***************************************************************************)
EXTENDS Integers, Sequences, FiniteSets, TLC

VARIABLES
    \* ---- parseXzpMetadata (one FileReader load of one file) ----
    text,          \* event.target.result
    pPc,           \* position inside the promise executor / onload handler
    startIndex,    \* const startIndex
    openBraces,    \* let openBraces
    endIndex,      \* let endIndex
    pI,            \* loop variable i
    visited,       \* indices the for loop has read, in order
    outcome,       \* how the promise settled ("pending" until then)
    settleCalls,   \* number of resolve()/reject() calls made
    \* ---- /api/github-callback (one request) ----
    hReq,          \* request: [method, body]
    hEnv,          \* process.env: [client_id, client_secret]
    hPc,           \* position inside the handler
    hResponses,    \* responses sent on `response`, in order: [status, body]
    hGithubCalls,  \* bodies of the requests sent to github.com, in order
    hGithubReply,  \* what the fetch of the token endpoint produced
    \* ---- the page (src/src/app.ts) ----
    uploadVisible,             \* uploadSection is shown
    fetchesPending,            \* calls of fetchExistingContentList that are at their await
    existingContentList,       \* ids of the entries of existingContentList, in order
    submissionType,            \* submissionTypeSelect.value
    visibleForm,               \* the form-<type> div that is not hidden ("" if none)
    skinFile,                  \* skinFileInput.files[0]
    coverflowFile,             \* coverflowFileInput.files[0]
    currentSkinMetadata,
    currentCoverflowMetadata,
    skinParses,                \* parseXzpMetadata promises pending, per file
    coverflowParses,           \* parseCoverflowMetadata promises pending, per file
    submissionQueue,
    nextItemId,
    status,                    \* the last showStatus: its type
    \* ---- createPullRequest runs and the remote repositories ----
    now,                       \* milliseconds on the clock new Date() reads
    runPc,                     \* per run: the await it is at
    runFiles,                  \* per run: allFiles
    runItems,                  \* per run: the items prTitle and prDescription list
    runBranch,                 \* per run: branchName
    runIdx,                    \* per run: position of the for loop in allFiles
    runLog,                    \* per run: the remote calls that have answered
    forkExists,                \* the contributor's fork
    refs,                      \* branches created on the fork
    contents,                  \* files committed on those branches
    pulls,                     \* pull requests opened on the upstream repository
    \* ---- the browser around the page ----
    localStorage,              \* entries [key, value]
    urlCode,                   \* the code parameter of window.location.search
    authPc,                    \* position of initialize / checkAuth
    exchangePending,           \* handleCallback is at its await
    lastReply,                 \* the reply the last settled getAuthenticated or exchange got
    loads                      \* page loads after the first

parseVars == <<text, pPc, startIndex, openBraces, endIndex, pI, visited, outcome, settleCalls>>

cbVars == <<hReq, hEnv, hPc, hResponses, hGithubCalls, hGithubReply>>

formVars == <<submissionType, visibleForm, skinFile, coverflowFile,
              currentSkinMetadata, currentCoverflowMetadata, skinParses, coverflowParses>>

pageVars == <<uploadVisible, fetchesPending, existingContentList, formVars,
              submissionQueue, nextItemId, status>>

remoteVars == <<forkExists, refs, contents, pulls>>

prVars == <<now, runPc, runFiles, runItems, runBranch, runIdx, runLog, remoteVars>>

authVars == <<localStorage, urlCode, authPc, exchangePending, lastReply, loads>>

otherThanParse == <<cbVars, pageVars, prVars, authVars>>
otherThanCallback == <<parseVars, pageVars, prVars, authVars>>
otherThanPage == <<parseVars, cbVars, prVars, authVars>>
otherThanPagePr == <<parseVars, cbVars>>

vars == <<parseVars, cbVars, pageVars, prVars, authVars>>

\* ------------------------------------------------------------------------
\* Bounds
\* ------------------------------------------------------------------------
MaxSuffix == 5          \* characters following the marker in a bounded text
MaxAdds == 2            \* handleAddToQueue calls that enqueue, per page load
MaxRuns == 2            \* createPullRequest runs started, per page load
MaxLoads == 2           \* page loads after the first
MaxRacing == 2          \* metadata parses pending at once where they are made to race
MaxPending == 1         \* metadata parses pending at once, per file input

\* ------------------------------------------------------------------------
\* Characters and texts
\* ------------------------------------------------------------------------
LBrace == "{"
RBrace == "}"
Quote  == "\""

\* app.ts:164   the literal '{"metaver"'
Marker == <<LBrace, Quote, "m", "e", "t", "a", "v", "e", "r", Quote>>

RECURSIVE SeqsUpTo(_, _)
SeqsUpTo(S, n) ==
    IF n = 0 THEN {<<>>}
    ELSE LET shorter == SeqsUpTo(S, n - 1)
         IN  shorter \cup {Append(s, c) : s \in {t \in shorter : Len(t) = n - 1}, c \in S}

\* what the opaque file holds before the metadata block
Prefixes == {<<>>, <<"1", RBrace>>, <<LBrace>>}
\* the marker, a truncated marker, or no marker at all
Mids == {Marker, SubSeq(Marker, 1, Len(Marker) - 1), <<>>}
SuffixAlphabet == {LBrace, RBrace, Quote, ":", "1"}
Texts == {p \o m \o s : p \in Prefixes, m \in Mids, s \in SeqsUpTo(SuffixAlphabet, MaxSuffix)}

\* text[i] for a 0-based i
CharAt(s, i) == s[i + 1]

\* String.prototype.substring(from, to) for 0 <= from <= to <= length
Substring(s, from, to) == SubSeq(s, from + 1, to)

\* String.prototype.indexOf: the least 0-based index at which pat occurs, or -1
IndexOf(s, pat) ==
    LET hits == {k \in 0..(Len(s) - Len(pat)) : Substring(s, k, k + Len(pat)) = pat}
    IN  IF hits = {} THEN -1 ELSE CHOOSE k \in hits : \A h \in hits : k <= h

\* ------------------------------------------------------------------------
\* JSON.parse, as a recogniser for the JSON grammar over the characters the
\* bounded texts are built from (objects, strings, numbers made of digits;
\* the texts hold no whitespace, no backslash, no literals).
\* Each ParseX(s, i) returns the 1-based position just after the X that
\* starts at position i, or 0 when no X starts there.
\* ------------------------------------------------------------------------
Digits == {"1"}

RECURSIVE ParseStringEnd(_, _)
ParseStringEnd(s, j) ==
    IF j > Len(s) THEN 0
    ELSE IF s[j] = Quote THEN j + 1
    ELSE ParseStringEnd(s, j + 1)

ParseString(s, i) ==
    IF i <= Len(s) /\ s[i] = Quote THEN ParseStringEnd(s, i + 1) ELSE 0

RECURSIVE ParseNumberEnd(_, _)
ParseNumberEnd(s, j) ==
    IF j <= Len(s) /\ s[j] \in Digits THEN ParseNumberEnd(s, j + 1) ELSE j

ParseNumber(s, i) ==
    IF i <= Len(s) /\ s[i] \in Digits THEN ParseNumberEnd(s, i + 1) ELSE 0

RECURSIVE ParseValue(_, _)
RECURSIVE ParseMembers(_, _)

\* members of an object from position i (just after '{' or ','), up to and
\* including the closing '}'
ParseMembers(s, i) ==
    LET k == ParseString(s, i)
    IN  IF k = 0 \/ k > Len(s) \/ s[k] # ":" THEN 0
        ELSE LET v == ParseValue(s, k + 1)
             IN  IF v = 0 \/ v > Len(s) THEN 0
                 ELSE IF s[v] = RBrace THEN v + 1
                 ELSE IF s[v] = "," THEN ParseMembers(s, v + 1)
                 ELSE 0

ParseObject(s, i) ==
    IF i > Len(s) \/ s[i] # LBrace THEN 0
    ELSE IF i + 1 <= Len(s) /\ s[i + 1] = RBrace THEN i + 2
    ELSE ParseMembers(s, i + 1)

ParseValue(s, i) ==
    IF i > Len(s) THEN 0
    ELSE IF s[i] = LBrace THEN ParseObject(s, i)
    ELSE IF s[i] = Quote THEN ParseString(s, i)
    ELSE ParseNumber(s, i)

\* JSON.parse(s) does not throw
JsonParses(s) == ParseValue(s, 1) = Len(s) + 1

\* ------------------------------------------------------------------------
\* parseXzpMetadata
\* ------------------------------------------------------------------------
\* app.ts:166,184,193,198   the rejection messages
ReadErrorMsg == "Failed to read skin file."
NoBlockMsg   == "Could not find metadata block in skin file."
NoEndMsg     == "Could not find the end of the metadata block."
BadJsonMsg   == "Failed to parse extracted JSON metadata."

\* resolve()/reject(): only the first call settles the promise
Settle(o) ==
    /\ outcome' = IF outcome = "pending" THEN o ELSE outcome
    /\ settleCalls' = settleCalls + 1

\* app.ts:162-170   reader.onload up to the loop
ParseOnload ==
    /\ pPc = "reading"
    /\ LET idx == IndexOf(text, Marker)
       IN  /\ startIndex' = idx
           /\ IF idx = -1
              THEN /\ Settle(NoBlockMsg)
                   /\ pPc' = "done"
                   /\ UNCHANGED <<openBraces, endIndex, pI>>
              ELSE /\ openBraces' = 0
                   /\ endIndex' = -1
                   /\ pI' = idx
                   /\ pPc' = "loop"
                   /\ UNCHANGED <<outcome, settleCalls>>
    /\ UNCHANGED <<text, visited, otherThanParse>>

\* a counter that forgets to count closing braces
CountBraceNoClose(n, c) ==
    IF c = LBrace THEN n + 1 ELSE n

\* app.ts:172-176   openBraces after the loop body has read character c
CountBrace(n, c) ==
    IF c = LBrace THEN n + 1
    ELSE IF c = RBrace THEN n - 1
    ELSE n

\* app.ts:171-181   one iteration of the for loop, or its exit
ParseLoop ==
    /\ pPc = "loop"
    /\ IF pI < Len(text)
       THEN LET n == CountBrace(openBraces, CharAt(text, pI))
            IN  /\ openBraces' = n
                /\ visited' = Append(visited, pI)
                /\ IF n = 0
                   THEN /\ endIndex' = pI
                        /\ pPc' = "after"
                        /\ pI' = pI
                   ELSE /\ pI' = pI + 1
                        /\ UNCHANGED <<endIndex, pPc>>
       ELSE /\ pPc' = "after"
            /\ UNCHANGED <<openBraces, visited, endIndex, pI>>
    /\ UNCHANGED <<text, startIndex, outcome, settleCalls, otherThanParse>>

\* app.ts:187   text.substring(startIndex, endIndex + 1)
JsonString == Substring(text, startIndex, endIndex + 1)

\* app.ts:183-194
ParseFinish ==
    /\ pPc = "after"
    /\ IF endIndex = -1
       THEN Settle(NoEndMsg)
       ELSE IF JsonParses(JsonString)
            THEN Settle("resolved")
            ELSE Settle(BadJsonMsg)
    /\ pPc' = "done"
    /\ UNCHANGED <<text, startIndex, openBraces, endIndex, pI, visited, otherThanParse>>

\* app.ts:197-199   reader.onerror
ParseReadError ==
    /\ pPc = "reading"
    /\ Settle(ReadErrorMsg)
    /\ pPc' = "done"
    /\ UNCHANGED <<text, startIndex, openBraces, endIndex, pI, visited, otherThanParse>>

ParseIdle ==
    /\ text = <<>>
    /\ pPc = "idle"
    /\ startIndex = -1
    /\ openBraces = 0
    /\ endIndex = -1
    /\ pI = 0
    /\ visited = <<>>
    /\ outcome = "pending"
    /\ settleCalls = 0

\* app.ts:158-159,201   the promise is created and the read is started
ParseStarted ==
    /\ text \in Texts
    /\ pPc = "reading"
    /\ startIndex = -1
    /\ openBraces = 0
    /\ endIndex = -1
    /\ pI = 0
    /\ visited = <<>>
    /\ outcome = "pending"
    /\ settleCalls = 0


\* ------------------------------------------------------------------------
\* /api/github-callback
\* ------------------------------------------------------------------------
\* JavaScript's undefined (an absent property, an unset environment variable)
Undefined == "<undefined>"

\* !v for the values that occur here: strings and undefined
Falsy(v) == v = Undefined \/ v = ""

Methods == {"POST", "GET"}
\* request.body: absent (no body or no content type), or a parsed JSON object
\* with or without a code
NoBody == [undefined |-> TRUE]
Bodies == {NoBody} \cup [code : {Undefined, "", "code1"}]
ClientIds == {Undefined, "", "client-id"}
ClientSecrets == {Undefined, "", "client-secret"}

\* what github.com can answer: the fetch throws, or a reply arrives whose
\* json() throws or yields an object
GithubErrors == {Undefined, "bad_verification_code"}
GithubDescriptions == {Undefined, "The code passed is incorrect or expired."}
GithubTokens == {Undefined, "", "gho_token"}
NotJson == [invalid |-> TRUE]
GithubJson == [error : GithubErrors, error_description : GithubDescriptions,
               access_token : GithubTokens]
GithubReplies ==
    {[kind |-> "throws", message |-> "fetch failed"]}
      \cup [kind : {"reply"}, ok : BOOLEAN, json : GithubJson \cup {NotJson}]

\* response.status(code).json(body)
Respond(code, body) == hResponses' = Append(hResponses, [status |-> code, body |-> body])

ErrorBody(msg) == [error |-> msg]

\* github-callback.js:16   !client_id || !client_secret
CredentialsMissing(env) == Falsy(env.client_id) \/ Falsy(env.client_secret)

\* github-callback.js:3-32   from the entry to the await of fetch
HandlerEntry ==
    /\ hPc = "received"
    /\ IF hReq.method # "POST"
       THEN /\ Respond(405, ErrorBody("Method Not Allowed"))
            /\ hPc' = "done"
            /\ UNCHANGED hGithubCalls
       ELSE IF hReq.body = NoBody
       THEN \* const { code } = request.body throws a TypeError, outside the try
            /\ hPc' = "threw"
            /\ UNCHANGED <<hResponses, hGithubCalls>>
       ELSE IF Falsy(hReq.body.code)
       THEN /\ Respond(400, ErrorBody("Authorization code is missing"))
            /\ hPc' = "done"
            /\ UNCHANGED hGithubCalls
       ELSE IF CredentialsMissing(hEnv)
       THEN /\ Respond(500, ErrorBody("Server configuration error: GitHub credentials not set."))
            /\ hPc' = "done"
            /\ UNCHANGED hGithubCalls
       ELSE /\ hGithubCalls' = Append(hGithubCalls,
                  [client_id |-> hEnv.client_id, client_secret |-> hEnv.client_secret,
                   code |-> hReq.body.code])
            /\ hPc' = "awaitGithub"
            /\ UNCHANGED hResponses
    /\ UNCHANGED <<hReq, hEnv, hGithubReply, otherThanCallback>>

\* github-callback.js:43   data.error_description || data.error
ErrorText(data) ==
    IF Falsy(data.error_description) THEN data.error ELSE data.error_description

\* github-callback.js:34-57   the body of the try after the fetch, and the catch
ReplyResponse(reply) ==
    IF reply.kind = "throws"
    THEN [status |-> 500, body |-> ErrorBody(reply.message)]
    ELSE IF ~reply.ok
    THEN [status |-> 500, body |-> ErrorBody("Failed to exchange code for token. Status: <status>")]
    ELSE IF reply.json = NotJson
    THEN [status |-> 500, body |-> ErrorBody("Unexpected token")]
    ELSE IF ~Falsy(reply.json.error)
    THEN [status |-> 500, body |-> ErrorBody(ErrorText(reply.json))]
    ELSE IF Falsy(reply.json.access_token)
    THEN [status |-> 500, body |-> ErrorBody("Access token not found in GitHub response.")]
    ELSE [status |-> 200, body |-> [access_token |-> reply.json.access_token]]

\* github-callback.js:21-57   the fetch settles and the handler answers
HandlerGithubReply ==
    /\ hPc = "awaitGithub"
    /\ \E reply \in GithubReplies :
          /\ hGithubReply' = reply
          /\ LET r == ReplyResponse(reply) IN Respond(r.status, r.body)
    /\ hPc' = "done"
    /\ UNCHANGED <<hReq, hEnv, hGithubCalls, otherThanCallback>>

CallbackIdle ==
    /\ hReq = [method |-> "GET", body |-> NoBody]
    /\ hEnv = [client_id |-> Undefined, client_secret |-> Undefined]
    /\ hPc = "idle"
    /\ hResponses = <<>>
    /\ hGithubCalls = <<>>
    /\ hGithubReply = [kind |-> "none"]

\* github-callback.js:1   the platform invokes the handler with a request
CallbackReceived ==
    /\ hReq \in [method : Methods, body : Bodies]
    /\ hEnv \in [client_id : ClientIds, client_secret : ClientSecrets]
    /\ hPc = "received"
    /\ hResponses = <<>>
    /\ hGithubCalls = <<>>
    /\ hGithubReply = [kind |-> "none"]



\* ------------------------------------------------------------------------
\* The page: values
\* ------------------------------------------------------------------------
Null == [null |-> TRUE]            \* JavaScript null
NoFile == [nofile |-> TRUE]        \* input.files?.[0] of an empty file input
NotAString == <<Undefined>>        \* a property that is absent or no string

\* String.prototype.toLowerCase, on the characters used here
LowerChar(c) ==
    CASE c = "A" -> "a"
      [] c = "B" -> "b"
      [] OTHER -> c

ToLowerCase(s) == [k \in 1..Len(s) |-> LowerChar(s[k])]

\* the characters the class [a-z0-9] matches, among those used here
AlnumChars == {"a", "b", "7"}

\* a replace that drops only the first character outside the class (no /g flag)
RECURSIVE StripFirstNonAlnum(_)
StripFirstNonAlnum(s) ==
    IF s = <<>> THEN <<>>
    ELSE IF Head(s) \in AlnumChars THEN <<Head(s)>> \o StripFirstNonAlnum(Tail(s))
    ELSE Tail(s)

\* app.ts:280   .replace(/[^a-z0-9]/g, '')
RECURSIVE StripNonAlnum(_)
StripNonAlnum(s) ==
    IF s = <<>> THEN <<>>
    ELSE IF Head(s) \in AlnumChars THEN <<Head(s)>> \o StripNonAlnum(Tail(s))
    ELSE StripNonAlnum(Tail(s))

\* app.ts:280-281   x.toLowerCase().replace(/[^a-z0-9]/g, '')
Sanitize(s) == StripNonAlnum(ToLowerCase(s))

\* the string a sequence of characters spells
RECURSIVE Join(_)
Join(s) == IF s = <<>> THEN "" ELSE Head(s) \o Join(Tail(s))

\* what the user can type into a name or author field, or a file can declare
Names == {<<>>, <<"A", "-">>, <<"b", "7">>}
Websites == {"", "https://example.org"}

\* data-max-size of the file inputs (the page's markup), in the unit of size
ImageMaxSize == 2
PackageMaxSize == 2

SmallImage == [name |-> "small.jpg", size |-> 1]
LargeImage == [name |-> "large.jpg", size |-> 3]
ImageFiles == {SmallImage, LargeImage}

\* a file whose metadata parse rejects
Rejects == [rejects |-> TRUE]

\* skin packages, each with what parseXzpMetadata makes of its content
SkinFiles ==
    {[name |-> "one.xzp", size |-> 1,
      parsed |-> [skinname |-> <<"A", "-">>, author |-> <<"b", "7">>]],
     [name |-> "two.xzp", size |-> 1,
      parsed |-> [skinname |-> <<>>, author |-> <<"a">>]],
     [name |-> "odd.xzp", size |-> 1,
      parsed |-> [skinname |-> NotAString, author |-> <<"a">>]],
     [name |-> "bad.xzp", size |-> 3, parsed |-> Rejects]}

\* coverflow files, each with what parseCoverflowMetadata makes of its content
CoverflowFiles ==
    {[name |-> "one.cfljson", size |-> 1,
      parsed |-> [name |-> <<"a">>, author |-> <<"A", "-">>]],
     [name |-> "bad.cfljson", size |-> 1, parsed |-> Rejects]}

\* repo/list.json of the target repository, as ids per section
Manifest ==
    [backgrounds |-> <<"bg.a.b7">>,
     coverflows  |-> <<"cf.a.a">>,
     skins       |-> <<"skin.b7.a">>]

\* app.ts:81-85   the three sections, spread into one list
SpreadManifest(m) == m.backgrounds \o m.coverflows \o m.skins

\* app.ts:284   existingContentList.some(existing => existing.id === itemId)
Exists(list, itemId) == \E k \in 1..Len(list) : list[k] = itemId

\* a check that looks at the first entry only
ExistsFirstOnly(list, itemId) == Len(list) > 0 /\ list[1] = itemId

\* app.ts:282,314,347   `${prefix}.${sanitizedAuthor}.${sanitizedName}`
ItemIdOf(prefix, sanitizedAuthor, sanitizedName) ==
    prefix \o "." \o Join(sanitizedAuthor) \o "." \o Join(sanitizedName)

\* an identifier with name and author in the other order
DesiredPathSwapped(dir, prefix, sanitizedAuthor, sanitizedName, ext) ==
    "repo/" \o dir \o "/" \o prefix \o "." \o Join(sanitizedName) \o "." \o Join(sanitizedAuthor)
        \o "." \o ext

\* app.ts:293,325-326,358-359   the desiredPath template literals
DesiredPath(dir, prefix, sanitizedAuthor, sanitizedName, ext) ==
    "repo/" \o dir \o "/" \o prefix \o "." \o Join(sanitizedAuthor) \o "." \o Join(sanitizedName)
        \o "." \o ext

FileEntry(file, path, max) == [file |-> file, desiredPath |-> path, maxSize |-> max]

\* ------------------------------------------------------------------------
\* The page: showing the upload section, the manifest fetch
\* ------------------------------------------------------------------------
\* app.ts:149-153   showUploadSection, up to the await inside the fetch
ShowUploadSection ==
    /\ ~uploadVisible
    /\ uploadVisible' = TRUE
    /\ fetchesPending' = fetchesPending + 1
    /\ UNCHANGED <<existingContentList, formVars, submissionQueue, nextItemId, status>>
    /\ UNCHANGED otherThanPage

FetchOutcomes == {"listed", "unexpected format", "no content", "threw"}

\* app.ts:71-95   existingContentList once getContent has settled
FetchedList(o, old) ==
    CASE o = "listed"            -> SpreadManifest(Manifest)
      [] o = "unexpected format" -> <<>>
      [] o = "no content"        -> old
      [] o = "threw"             -> <<>>

\* app.ts:63-96   fetchExistingContentList after its await
FetchDone ==
    /\ fetchesPending > 0
    /\ \E o \in FetchOutcomes : existingContentList' = FetchedList(o, existingContentList)
    /\ fetchesPending' = fetchesPending - 1
    /\ UNCHANGED <<uploadVisible, formVars, submissionQueue, nextItemId, status>>
    /\ UNCHANGED otherThanPage

\* ------------------------------------------------------------------------
\* The page: forms
\* ------------------------------------------------------------------------
\* app.ts:372-388   resetForms
ResetForms ==
    /\ skinFile' = NoFile
    /\ coverflowFile' = NoFile
    /\ currentSkinMetadata' = Null
    /\ currentCoverflowMetadata' = Null
    /\ visibleForm' = ""

Types == {"background", "skin", "coverflow"}

\* app.ts:509-524   the change listener of the type select
SelectType(types) ==
    /\ uploadVisible
    /\ \E t \in types :
          /\ t # submissionType
          /\ submissionType' = t
          /\ skinFile' = NoFile
          /\ coverflowFile' = NoFile
          /\ currentSkinMetadata' = Null
          /\ currentCoverflowMetadata' = Null
          /\ visibleForm' = t
    /\ UNCHANGED <<skinParses, coverflowParses>>
    /\ UNCHANGED <<uploadVisible, fetchesPending, existingContentList, submissionQueue, nextItemId,
                   status>>
    /\ UNCHANGED otherThanPage

Pending(bag) == {f \in DOMAIN bag : bag[f] > 0}

RECURSIVE SumOver(_, _)
SumOver(bag, S) ==
    IF S = {} THEN 0
    ELSE LET f == CHOOSE x \in S : TRUE IN bag[f] + SumOver(bag, S \ {f})

PendingCount(bag) == SumOver(bag, DOMAIN bag)

\* app.ts:526-537   the change listener of the skin file input, up to its
\* await, with at most limit parses pending at once
SkinFileChangeUpTo(files, limit) ==
    /\ uploadVisible
    /\ visibleForm = "skin"
    /\ \E f \in files \cup {NoFile} :
          /\ skinFile' = f
          /\ currentSkinMetadata' = Null
          /\ IF f = NoFile
             THEN UNCHANGED <<skinParses, status>>
             ELSE /\ PendingCount(skinParses) < limit
                  /\ skinParses' = [skinParses EXCEPT ![f] = @ + 1]
                  /\ status' = "info"
    /\ UNCHANGED <<submissionType, visibleForm, coverflowFile, currentCoverflowMetadata,
                   coverflowParses>>
    /\ UNCHANGED <<uploadVisible, fetchesPending, existingContentList, submissionQueue, nextItemId>>
    /\ UNCHANGED otherThanPage

\* the same listener, with the pending parses bounded by MaxPending
SkinFileChange(files) == SkinFileChangeUpTo(files, MaxPending)

\* app.ts:537-562   the same listener after parseXzpMetadata has settled
SkinParseSettled ==
    /\ \E f \in Pending(skinParses) :
          /\ skinParses' = [skinParses EXCEPT ![f] = @ - 1]
          /\ IF f.parsed = Rejects
             THEN /\ currentSkinMetadata' = Null
                  /\ status' = "error"
             ELSE /\ currentSkinMetadata' = f.parsed
                  /\ status' = "success"
    /\ UNCHANGED <<submissionType, visibleForm, skinFile, coverflowFile,
                   currentCoverflowMetadata, coverflowParses>>
    /\ UNCHANGED <<uploadVisible, fetchesPending, existingContentList, submissionQueue, nextItemId>>
    /\ UNCHANGED otherThanPage

\* app.ts:565-576   the change listener of the coverflow file input, up to
\* its await, with at most limit parses pending at once
CoverflowFileChangeUpTo(files, limit) ==
    /\ uploadVisible
    /\ visibleForm = "coverflow"
    /\ \E f \in files \cup {NoFile} :
          /\ coverflowFile' = f
          /\ currentCoverflowMetadata' = Null
          /\ IF f = NoFile
             THEN UNCHANGED <<coverflowParses, status>>
             ELSE /\ PendingCount(coverflowParses) < limit
                  /\ coverflowParses' = [coverflowParses EXCEPT ![f] = @ + 1]
                  /\ status' = "info"
    /\ UNCHANGED <<submissionType, visibleForm, skinFile, currentSkinMetadata, skinParses>>
    /\ UNCHANGED <<uploadVisible, fetchesPending, existingContentList, submissionQueue, nextItemId>>
    /\ UNCHANGED otherThanPage

\* the same listener, with the pending parses bounded by MaxPending
CoverflowFileChange(files) == CoverflowFileChangeUpTo(files, MaxPending)

\* app.ts:576-599   the same listener after parseCoverflowMetadata has settled
CoverflowParseSettled ==
    /\ \E f \in Pending(coverflowParses) :
          /\ coverflowParses' = [coverflowParses EXCEPT ![f] = @ - 1]
          /\ IF f.parsed = Rejects
             THEN /\ currentCoverflowMetadata' = Null
                  /\ status' = "error"
             ELSE /\ currentCoverflowMetadata' = f.parsed
                  /\ status' = "success"
    /\ UNCHANGED <<submissionType, visibleForm, skinFile, coverflowFile,
                   currentSkinMetadata, skinParses>>
    /\ UNCHANGED <<uploadVisible, fetchesPending, existingContentList, submissionQueue, nextItemId>>
    /\ UNCHANGED otherThanPage

\* ------------------------------------------------------------------------
\* The page: the submission queue
\* ------------------------------------------------------------------------
\* handleAddToQueue returns without enqueuing, after a showStatus of this type
AddReturns(type) ==
    /\ status' = type
    /\ UNCHANGED <<formVars, submissionQueue, nextItemId>>

\* handleAddToQueue throws (its promise rejects, nobody handles it)
AddThrows ==
    /\ UNCHANGED <<formVars, submissionQueue, nextItemId, status>>

\* an increment that is forgotten
EnqueueSameId(item) ==
    /\ submissionQueue' = Append(submissionQueue, item @@ [id |-> nextItemId])
    /\ nextItemId' = nextItemId
    /\ ResetForms
    /\ status' = "success"
    /\ UNCHANGED <<submissionType, skinParses, coverflowParses>>

\* app.ts:364-369
Enqueue(item) ==
    /\ submissionQueue' = Append(submissionQueue, item @@ [id |-> nextItemId])
    /\ nextItemId' = nextItemId + 1
    /\ ResetForms
    /\ status' = "success"
    /\ UNCHANGED <<submissionType, skinParses, coverflowParses>>

\* app.ts:266-296
AddBackground(name, author, imageFile) ==
    IF name = <<>> \/ author = <<>> \/ imageFile = NoFile
    THEN AddReturns("error")
    ELSE LET sanitizedName == Sanitize(name)
             sanitizedAuthor == Sanitize(author)
             itemId == ItemIdOf("bg", sanitizedAuthor, sanitizedName)
         IN  IF Exists(existingContentList, itemId)
             THEN AddReturns("error")
             ELSE Enqueue(
                    [type |-> "background", name |-> name, author |-> author,
                     files |-> <<FileEntry(imageFile,
                                   DesiredPath("backgrounds", "bg", sanitizedAuthor, sanitizedName, "jpg"),
                                   ImageMaxSize)>>])

\* app.ts:298-328
AddSkin(website, screenshotFile) ==
    IF skinFile = NoFile \/ screenshotFile = NoFile \/ website = "" \/ currentSkinMetadata = Null
    THEN AddThrows
    ELSE LET skinname == currentSkinMetadata.skinname
             author == currentSkinMetadata.author
         IN  IF skinname = NotAString \/ author = NotAString
             THEN AddThrows    \* toLowerCase is not a function of it
             ELSE LET sanitizedName == Sanitize(skinname)
                      sanitizedAuthor == Sanitize(author)
                      itemId == ItemIdOf("skin", sanitizedAuthor, sanitizedName)
                  IN  IF Exists(existingContentList, itemId)
                      THEN AddReturns("error")
                      ELSE Enqueue(
                             [type |-> "skin", name |-> skinname, author |-> author,
                              website |-> website, metadata |-> currentSkinMetadata,
                              files |-> <<
                                FileEntry(skinFile,
                                  DesiredPath("skins", "skin", sanitizedAuthor, sanitizedName, "xzp"),
                                  PackageMaxSize),
                                FileEntry(screenshotFile,
                                  DesiredPath("skins", "skin", sanitizedAuthor, sanitizedName, "jpg"),
                                  ImageMaxSize)>>])

\* app.ts:330-361
AddCoverflow(website, screenshotFile) ==
    IF coverflowFile = NoFile \/ screenshotFile = NoFile \/ currentCoverflowMetadata = Null
    THEN AddReturns("error")
    ELSE LET name == currentCoverflowMetadata.name
             author == currentCoverflowMetadata.author
         IN  IF name = NotAString \/ author = NotAString
             THEN AddThrows
             ELSE LET sanitizedName == Sanitize(name)
                      sanitizedAuthor == Sanitize(author)
                      itemId == ItemIdOf("cf", sanitizedAuthor, sanitizedName)
                  IN  IF Exists(existingContentList, itemId)
                      THEN AddReturns("error")
                      ELSE Enqueue(
                             [type |-> "coverflow", name |-> name, author |-> author,
                              website |-> website, metadata |-> currentCoverflowMetadata,
                              files |-> <<
                                FileEntry(coverflowFile,
                                  DesiredPath("coverflows", "cf", sanitizedAuthor, sanitizedName, "cfljson"),
                                  PackageMaxSize),
                                FileEntry(screenshotFile,
                                  DesiredPath("coverflows", "cf", sanitizedAuthor, sanitizedName, "jpg"),
                                  ImageMaxSize)>>])

\* app.ts:255-370   handleAddToQueue, with what the form fields hold
HandleAddToQueue(name, author, website, imageFile, screenshotFile) ==
    /\ uploadVisible
    /\ nextItemId < MaxAdds
    /\ CASE submissionType = "" -> AddReturns("error")
         [] submissionType = "background" -> AddBackground(name, author, imageFile)
         [] submissionType = "skin" -> AddSkin(website, screenshotFile)
         [] submissionType = "coverflow" -> AddCoverflow(website, screenshotFile)
    /\ UNCHANGED <<uploadVisible, fetchesPending, existingContentList>>
    /\ UNCHANGED otherThanPage

FormFields(name, author, website, imageFile, screenshotFile) ==
    [name |-> name, author |-> author, website |-> website, imageFile |-> imageFile,
     screenshotFile |-> screenshotFile]

\* the text and file fields as resetForms leaves them
ClearedFields == FormFields(<<>>, <<>>, "", NoFile, NoFile)

\* what the fields read by handleAddToQueue can hold: the fields of the form
\* that is shown hold what the user put there, those of a hidden form are
\* as resetForms left them
FieldValues(names, websites, images, screenshots) ==
    IF visibleForm # submissionType \/ submissionType = "" THEN {ClearedFields}
    ELSE IF submissionType = "background"
    THEN {FormFields(n, a, "", i, NoFile) : n \in names, a \in names, i \in images}
    ELSE {FormFields(<<>>, <<>>, w, NoFile, i) : w \in websites, i \in screenshots}

\* a click on addToQueueButton
AddToQueue(names, websites, images, screenshots) ==
    \E f \in FieldValues(names, websites, images, screenshots) :
        HandleAddToQueue(f.name, f.author, f.website, f.imageFile, f.screenshotFile)

DecimalDigits == <<"0", "1", "2", "3", "4", "5", "6", "7", "8", "9">>

\* app.ts:247   data-id="${item.id}": the number in decimal
RECURSIVE DataId(_)
DataId(n) ==
    IF n < 10 THEN <<DecimalDigits[n + 1]>>
    ELSE DataId(n \div 10) \o <<DecimalDigits[(n % 10) + 1]>>

DigitValue(c) == CHOOSE d \in 0..9 : DecimalDigits[d + 1] = c

RECURSIVE ParseDecimal(_)
ParseDecimal(s) ==
    IF s = <<>> THEN 0
    ELSE ParseDecimal(SubSeq(s, 1, Len(s) - 1)) * 10 + DigitValue(s[Len(s)])

\* app.ts:607   parseInt(target.dataset.id || '-1')
ParseDataId(s) == IF s = <<>> THEN -1 ELSE ParseDecimal(s)

\* app.ts:604-611   the click listener of the queue list, on a Remove button
\* (the buttons are those updateQueueDisplay made from the queue as it is)
RemoveFromQueue ==
    /\ uploadVisible
    /\ \E k \in 1..Len(submissionQueue) :
          LET idToRemove == ParseDataId(DataId(submissionQueue[k].id))
              Keep(item) == item.id # idToRemove
          IN  submissionQueue' = SelectSeq(submissionQueue, Keep)
    /\ UNCHANGED <<uploadVisible, fetchesPending, existingContentList, formVars, nextItemId, status>>
    /\ UNCHANGED otherThanPage

\* app.ts:26-31,61   the module's state when the script has been evaluated
PageLoaded ==
    /\ uploadVisible = FALSE
    /\ fetchesPending = 0
    /\ existingContentList = <<>>
    /\ submissionType = ""
    /\ visibleForm = ""
    /\ skinFile = NoFile
    /\ coverflowFile = NoFile
    /\ currentSkinMetadata = Null
    /\ currentCoverflowMetadata = Null
    /\ skinParses = [f \in SkinFiles |-> 0]
    /\ coverflowParses = [f \in CoverflowFiles |-> 0]
    /\ submissionQueue = <<>>
    /\ nextItemId = 0
    /\ status = "none"


\* ------------------------------------------------------------------------
\* createPullRequest
\* ------------------------------------------------------------------------
Runs == 1..MaxRuns

\* app.ts:20,23   the configured base branch, the upstream owner
GITHUB_TARGET_BRANCH == "release"
GITHUB_REPO_OWNER == "DanielmGM"
\* forkResponse.data.owner.login and repoData.default_branch, as GitHub reports them
ForkOwner == "contributor"
DefaultBranch == "main"

\* app.ts:406-407   `add/submission-batch-${timestamp}`
BranchName(t) == <<"add/submission-batch-", t>>

\* the first file of every item only
AllFilesFirstOnly(queue) == [k \in 1..Len(queue) |-> queue[k].files[1]]

\* app.ts:396   submissionQueue.flatMap(item => item.files)
RECURSIVE AllFiles(_)
AllFiles(queue) ==
    IF queue = <<>> THEN <<>> ELSE Head(queue).files \o AllFiles(Tail(queue))

\* a validation that lets every file pass
ValidateAnySize(file, maxSize) == TRUE

\* app.ts:469-475   validateFileSize
ValidateFileSize(file, maxSize) == ~(file.size > maxSize)

\* app.ts:399-403   every file passes validateFileSize
AllSizesValid(files) == \A k \in 1..Len(files) : ValidateFileSize(files[k].file, files[k].maxSize)

RunsStarted == {r \in Runs : runPc[r] # "unused"}

Call(r, c) == runLog' = [runLog EXCEPT ![r] = Append(@, c)]

pageRest == <<uploadVisible, fetchesPending, existingContentList, nextItemId, skinParses,
              coverflowParses, submissionType>>

\* app.ts:390-415   createPullRequest up to its first await
CreatePullRequest ==
    /\ uploadVisible
    /\ IF submissionQueue = <<>> \/ ~AllSizesValid(AllFiles(submissionQueue))
       THEN /\ status' = "error"
            /\ UNCHANGED <<prVars, submissionQueue, formVars>>
       ELSE \E r \in Runs, d \in {0, 1} :
              /\ r = Cardinality(RunsStarted) + 1
              /\ RunsStarted = {} => d = 0
              /\ now' = now + d
              /\ runPc' = [runPc EXCEPT ![r] = "createFork"]
              /\ runFiles' = [runFiles EXCEPT ![r] = AllFiles(submissionQueue)]
              /\ runItems' = [runItems EXCEPT ![r] = submissionQueue]
              /\ runBranch' = [runBranch EXCEPT ![r] = BranchName(now')]
              /\ status' = "info"
              /\ UNCHANGED <<runIdx, runLog, remoteVars, submissionQueue, formVars>>
    /\ UNCHANGED <<uploadVisible, fetchesPending, existingContentList, nextItemId>>
    /\ UNCHANGED <<otherThanPagePr, authVars>>

RunUnchanged == UNCHANGED <<now, runFiles, runItems, runBranch>>

\* app.ts:417-418   createFork has answered
RunCreateFork(r) ==
    /\ runPc[r] = "createFork"
    /\ Call(r, [op |-> "createFork"])
    /\ forkExists' = TRUE
    /\ runPc' = [runPc EXCEPT ![r] = "getRepo"]
    /\ RunUnchanged
    /\ UNCHANGED <<runIdx, refs, contents, pulls, pageVars>>
    /\ UNCHANGED <<otherThanPagePr, authVars>>

\* app.ts:420-424   repos.get has answered
RunGetRepo(r) ==
    /\ runPc[r] = "getRepo"
    /\ Call(r, [op |-> "getRepo"])
    /\ runPc' = [runPc EXCEPT ![r] = "getRef"]
    /\ RunUnchanged
    /\ UNCHANGED <<runIdx, remoteVars, pageVars>>
    /\ UNCHANGED <<otherThanPagePr, authVars>>

\* app.ts:426   git.getRef has answered
RunGetRef(r) ==
    /\ runPc[r] = "getRef"
    /\ Call(r, [op |-> "getRef", owner |-> ForkOwner, ref |-> DefaultBranch])
    /\ runPc' = [runPc EXCEPT ![r] = "createRef"]
    /\ RunUnchanged
    /\ UNCHANGED <<runIdx, remoteVars, pageVars>>
    /\ UNCHANGED <<otherThanPagePr, authVars>>

\* app.ts:428-435   git.createRef has answered; the loop starts
RunCreateRef(r) ==
    /\ runPc[r] = "createRef"
    /\ runBranch[r] \notin refs
    /\ Call(r, [op |-> "createRef", owner |-> ForkOwner, ref |-> runBranch[r]])
    /\ refs' = refs \cup {runBranch[r]}
    /\ runIdx' = [runIdx EXCEPT ![r] = 1]
    /\ runPc' = [runPc EXCEPT ![r] = "commit"]
    /\ RunUnchanged
    /\ UNCHANGED <<forkExists, contents, pulls, pageVars>>
    /\ UNCHANGED <<otherThanPagePr, authVars>>

PathsOn(branch) == {c.path : c \in {x \in contents : x.branch = branch}}

\* the position the loop is at once file k is committed
AfterCommit(k, files) == IF k < Len(files) THEN "commit" ELSE "createPull"

\* app.ts:435-445   one iteration: the file is read and createOrUpdateFileContents has answered
RunCommit(r) ==
    /\ runPc[r] = "commit"
    /\ LET f == runFiles[r][runIdx[r]]
       IN  /\ f.desiredPath \notin PathsOn(runBranch[r])
           /\ Call(r, [op |-> "createOrUpdateFileContents", owner |-> ForkOwner,
                       branch |-> runBranch[r], path |-> f.desiredPath, file |-> f.file])
           /\ contents' = contents \cup
                  {[branch |-> runBranch[r], path |-> f.desiredPath, file |-> f.file]}
    /\ runPc' = [runPc EXCEPT ![r] = AfterCommit(runIdx[r], runFiles[r])]
    /\ runIdx' = [runIdx EXCEPT ![r] = @ + 1]
    /\ RunUnchanged
    /\ UNCHANGED <<forkExists, refs, pulls, pageVars>>
    /\ UNCHANGED <<otherThanPagePr, authVars>>

\* a base taken from the upstream repository's default branch
PullBaseDefault == DefaultBranch

\* app.ts:453   base: GITHUB_TARGET_BRANCH
PullBase == GITHUB_TARGET_BRANCH

\* app.ts:447-459   pulls.create has answered; the queue and the forms are reset
RunCreatePull(r) ==
    /\ runPc[r] = "createPull"
    /\ LET pull == [op |-> "pulls.create", owner |-> GITHUB_REPO_OWNER,
                    head |-> <<ForkOwner, runBranch[r]>>, base |-> PullBase,
                    items |-> runItems[r]]
       IN  /\ Call(r, pull)
           /\ pulls' = Append(pulls, pull)
    /\ status' = "success"
    /\ submissionQueue' = <<>>
    /\ ResetForms
    /\ runPc' = [runPc EXCEPT ![r] = "done"]
    /\ RunUnchanged
    /\ UNCHANGED <<runIdx, forkExists, refs, contents, pageRest>>
    /\ UNCHANGED <<otherThanPagePr, authVars>>

RemoteSteps == {"createFork", "getRepo", "getRef", "createRef", "commit", "createPull"}

\* a catch block that also empties the queue
RunFailsAndClears(r) ==
    /\ runPc[r] \in RemoteSteps
    /\ runPc' = [runPc EXCEPT ![r] = "failed"]
    /\ status' = "error"
    /\ submissionQueue' = <<>>
    /\ RunUnchanged
    /\ UNCHANGED <<runIdx, runLog, remoteVars, formVars, pageRest>>
    /\ UNCHANGED <<otherThanPagePr, authVars>>

\* app.ts:461-463   an awaited call of the try block rejects: the catch block
RunFails(r) ==
    /\ runPc[r] \in RemoteSteps
    /\ runPc' = [runPc EXCEPT ![r] = "failed"]
    /\ status' = "error"
    /\ RunUnchanged
    /\ UNCHANGED <<runIdx, runLog, remoteVars, formVars, pageRest, submissionQueue>>
    /\ UNCHANGED <<otherThanPagePr, authVars>>

\* no run of createPullRequest has been started and the remote side is untouched
PrIdle ==
    /\ now = 0
    /\ runPc = [r \in Runs |-> "unused"]
    /\ runFiles = [r \in Runs |-> <<>>]
    /\ runItems = [r \in Runs |-> <<>>]
    /\ runBranch = [r \in Runs |-> BranchName(0)]
    /\ runIdx = [r \in Runs |-> 0]
    /\ runLog = [r \in Runs |-> <<>>]
    /\ forkExists = FALSE
    /\ refs = {}
    /\ contents = {}
    /\ pulls = <<>>

\* ------------------------------------------------------------------------
\* Page loads, checkAuth and handleCallback
\* ------------------------------------------------------------------------
TokenKey == "github_token"

\* localStorage.getItem(key), Undefined standing for null
GetItem(store, key) ==
    IF \E e \in store : e.key = key
    THEN (CHOOSE e \in store : e.key = key).value
    ELSE Undefined

\* localStorage.setItem(key, value)
SetItem(store, key, value) ==
    {e \in store : e.key # key} \cup {[key |-> key, value |-> value]}

\* localStorage.removeItem(key)
RemoveItem(store, key) == {e \in store : e.key # key}

\* tokens github.com accepts, and what a browser may hold from earlier visits
ValidTokens == {"gho_token"}
StoredTokens == {"gho_token", "gho_revoked"}
UrlCodes == {Undefined, "code1"}

\* what the fetch of /api/github-callback can produce for a POST with a code:
\* it throws, or it yields one of the handler's responses
ExchangeReplies ==
    {[kind |-> "throws"]}
      \cup {[kind |-> "response", status |-> 500,
             body |-> ErrorBody("Server configuration error: GitHub credentials not set.")]}
      \cup {[kind |-> "response", status |-> ReplyResponse(g).status, body |-> ReplyResponse(g).body] :
              g \in GithubReplies}

\* data.<field>, Undefined when the body has no such field
BodyField(body, field) == IF field \in DOMAIN body THEN body[field] ELSE Undefined

\* app.ts:123-135   the try block reaches localStorage.setItem
ExchangeSucceeded(reply) ==
    /\ reply.kind = "response"
    /\ reply.status = 200
    /\ Falsy(BodyField(reply.body, "error"))

\* the script's state is gone and the script has not run yet
Unloaded ==
    /\ uploadVisible' = FALSE
    /\ fetchesPending' = 0
    /\ existingContentList' = <<>>
    /\ submissionType' = ""
    /\ visibleForm' = ""
    /\ skinFile' = NoFile
    /\ coverflowFile' = NoFile
    /\ currentSkinMetadata' = Null
    /\ currentCoverflowMetadata' = Null
    /\ skinParses' = [f \in SkinFiles |-> 0]
    /\ coverflowParses' = [f \in CoverflowFiles |-> 0]
    /\ submissionQueue' = <<>>
    /\ nextItemId' = 0
    /\ status' = "none"
    /\ exchangePending' = FALSE
    /\ lastReply' = [kind |-> "none"]
    /\ authPc' = "load"

\* the browser loads the page: a first visit, a reload, or the return from
\* github.com/login/oauth/authorize with a code in the URL
PageLoad ==
    /\ authPc # "load"
    /\ loads < MaxLoads
    /\ loads' = loads + 1
    /\ Unloaded
    /\ \E c \in UrlCodes : urlCode' = c
    /\ UNCHANGED <<localStorage, prVars>>
    /\ UNCHANGED otherThanPagePr

\* app.ts:118-127   handleCallback up to its await
CallbackStarts == urlCode # Undefined

\* app.ts:503-505,98-103   initialize: checkAuth up to its await, or, with no
\* stored token, on to handleCallback and the listeners
Initialize ==
    /\ authPc = "load"
    /\ IF GetItem(localStorage, TokenKey) # Undefined
       THEN /\ authPc' = "getAuthenticated"
            /\ UNCHANGED <<exchangePending, status>>
       ELSE /\ authPc' = "ready"
            /\ exchangePending' = CallbackStarts
            /\ status' = IF CallbackStarts THEN "info" ELSE status
    /\ UNCHANGED <<localStorage, urlCode, loads, lastReply, uploadVisible, fetchesPending,
                   existingContentList, formVars, submissionQueue, nextItemId, prVars>>
    /\ UNCHANGED otherThanPagePr

\* app.ts:103-104,505-615   getAuthenticated resolved: the upload section is
\* shown, handleCallback runs up to its await, the listeners are registered
CheckAuthAccepted ==
    /\ authPc = "getAuthenticated"
    /\ GetItem(localStorage, TokenKey) \in ValidTokens
    /\ lastReply' = [kind |-> "token accepted"]
    /\ uploadVisible' = TRUE
    /\ fetchesPending' = fetchesPending + 1
    /\ authPc' = "ready"
    /\ exchangePending' = CallbackStarts
    /\ status' = IF CallbackStarts THEN "info" ELSE status
    /\ UNCHANGED <<localStorage, urlCode, loads, existingContentList, formVars, submissionQueue,
                   nextItemId, prVars>>
    /\ UNCHANGED otherThanPagePr

\* a catch block that reloads without forgetting the token
CheckAuthRejectedKeepsToken ==
    /\ authPc = "getAuthenticated"
    /\ lastReply' = [kind |-> "token rejected"]
    /\ authPc' = "load"
    /\ UNCHANGED <<localStorage, urlCode, loads, exchangePending, status, uploadVisible,
                   fetchesPending, existingContentList, formVars, submissionQueue, nextItemId,
                   prVars>>
    /\ UNCHANGED otherThanPagePr

\* app.ts:105-108   getAuthenticated rejected (the token is not accepted, or
\* the request failed): the token is removed and the page reloads with the
\* same URL; the script's state is still as it was evaluated
CheckAuthRejected ==
    /\ authPc = "getAuthenticated"
    /\ localStorage' = RemoveItem(localStorage, TokenKey)
    /\ lastReply' = [kind |-> "token rejected"]
    /\ authPc' = "load"
    /\ UNCHANGED <<urlCode, loads, exchangePending, status, uploadVisible, fetchesPending,
                   existingContentList, formVars, submissionQueue, nextItemId, prVars>>
    /\ UNCHANGED otherThanPagePr

\* app.ts:129-145   handleCallback after the fetch has settled
ExchangeSettled ==
    /\ exchangePending
    /\ exchangePending' = FALSE
    /\ \E reply \in ExchangeReplies :
          /\ lastReply' = reply
          /\ IF ExchangeSucceeded(reply)
             THEN /\ localStorage' = SetItem(localStorage, TokenKey,
                                             BodyField(reply.body, "access_token"))
                  /\ urlCode' = Undefined
                  /\ uploadVisible' = TRUE
                  /\ fetchesPending' = fetchesPending + 1
                  /\ status' = "success"
             ELSE /\ status' = "error"
                  /\ UNCHANGED <<localStorage, urlCode, uploadVisible, fetchesPending>>
    /\ UNCHANGED <<authPc, loads, existingContentList, formVars, submissionQueue, nextItemId,
                   prVars>>
    /\ UNCHANGED otherThanPagePr

\* the page is up and no exchange was ever started in this browser
AuthIdle ==
    /\ localStorage = {}
    /\ urlCode = Undefined
    /\ authPc = "ready"
    /\ exchangePending = FALSE
    /\ lastReply = [kind |-> "none"]
    /\ loads = 0

\* the browser has the page and is about to run the script
FirstLoad ==
    /\ localStorage \in {{}} \cup {{[key |-> TokenKey, value |-> t]} : t \in StoredTokens}
    /\ urlCode \in UrlCodes
    /\ authPc = "load"
    /\ exchangePending = FALSE
    /\ lastReply = [kind |-> "none"]
    /\ loads = 0

\* ------------------------------------------------------------------------
\* Specifications
\* ------------------------------------------------------------------------
NextParse == ParseOnload \/ ParseLoop \/ ParseFinish \/ ParseReadError

InitParse == ParseStarted /\ CallbackIdle /\ PageLoaded /\ PrIdle /\ AuthIdle

SpecParse == InitParse /\ [][NextParse]_vars

NextCallback == HandlerEntry \/ HandlerGithubReply

InitCallback == CallbackReceived /\ ParseIdle /\ PageLoaded /\ PrIdle /\ AuthIdle

SpecCallback == InitCallback /\ [][NextCallback]_vars

NextPage ==
    \/ ShowUploadSection
    \/ FetchDone
    \/ SelectType(Types \cup {""})
    \/ SkinFileChange(SkinFiles)
    \/ SkinParseSettled
    \/ CoverflowFileChange(CoverflowFiles)
    \/ CoverflowParseSettled
    \/ AddToQueue(Names, Websites, {SmallImage, NoFile}, {SmallImage, NoFile})
    \/ RemoveFromQueue

Init == PageLoaded /\ PrIdle /\ AuthIdle /\ ParseIdle /\ CallbackIdle

Spec == Init /\ [][NextPage]_vars

\* what the user submits in the runs of createPullRequest that are explored
PrNames == {<<"b", "7">>}
PrSkinFiles == {f \in SkinFiles : f.name = "one.xzp"}

NextPr ==
    \/ SelectType({"background", "skin"})
    \/ SkinFileChange(PrSkinFiles)
    \/ SkinParseSettled
    \/ AddToQueue(PrNames, {"https://example.org"}, ImageFiles, {SmallImage})
    \/ RemoveFromQueue
    \/ CreatePullRequest
    \/ \E r \in Runs : RunCreateFork(r)
    \/ \E r \in Runs : RunGetRepo(r)
    \/ \E r \in Runs : RunGetRef(r)
    \/ \E r \in Runs : RunCreateRef(r)
    \/ \E r \in Runs : RunCommit(r)
    \/ \E r \in Runs : RunCreatePull(r)
    \/ \E r \in Runs : RunFails(r)

\* the upload section is shown and the manifest fetch has failed
UploadShown ==
    /\ uploadVisible = TRUE
    /\ fetchesPending = 0
    /\ existingContentList = <<>>
    /\ submissionType = ""
    /\ visibleForm = ""
    /\ skinFile = NoFile
    /\ coverflowFile = NoFile
    /\ currentSkinMetadata = Null
    /\ currentCoverflowMetadata = Null
    /\ skinParses = [f \in SkinFiles |-> 0]
    /\ coverflowParses = [f \in CoverflowFiles |-> 0]
    /\ submissionQueue = <<>>
    /\ nextItemId = 0
    /\ status = "none"

InitPr == UploadShown /\ PrIdle /\ AuthIdle /\ ParseIdle /\ CallbackIdle

SpecPR == InitPr /\ [][NextPr]_vars

NextAuth ==
    \/ PageLoad
    \/ Initialize
    \/ CheckAuthAccepted
    \/ CheckAuthRejected
    \/ ExchangeSettled
    \/ FetchDone
    \/ SelectType({"background", "skin"})
    \/ SkinFileChange(PrSkinFiles)
    \/ SkinParseSettled
    \/ AddToQueue(PrNames, {"https://example.org"}, {SmallImage}, {SmallImage})

InitAuth == FirstLoad /\ PageLoaded /\ PrIdle /\ ParseIdle /\ CallbackIdle

SpecAuth == InitAuth /\ [][NextAuth]_vars

\* the packages whose metadata parses, with different results
MetaSkinFiles == {f \in SkinFiles : f.name \in {"one.xzp", "two.xzp"}}

NextMeta ==
    \/ SelectType({"skin", "coverflow"})
    \/ SkinFileChangeUpTo(MetaSkinFiles, MaxRacing)
    \/ SkinParseSettled
    \/ CoverflowFileChangeUpTo(CoverflowFiles, MaxRacing)
    \/ CoverflowParseSettled
    \/ AddToQueue({<<>>}, {"https://example.org"}, {NoFile}, {SmallImage})

InitMeta == UploadShown /\ PrIdle /\ AuthIdle /\ ParseIdle /\ CallbackIdle

SpecMeta == InitMeta /\ [][NextMeta]_vars

\* ------------------------------------------------------------------------
\* Reference notions for the metadata extractor
\* ------------------------------------------------------------------------
HasMarker(s) == \E k \in 0..(Len(s) - Len(Marker)) : Substring(s, k, k + Len(Marker)) = Marker

\* 0-based index of the first occurrence of the marker (when there is one)
FirstMarker(s) ==
    CHOOSE k \in 0..(Len(s) - Len(Marker)) :
        /\ Substring(s, k, k + Len(Marker)) = Marker
        /\ \A h \in 0..(k - 1) : Substring(s, h, h + Len(Marker)) # Marker

\* number of '{' minus number of '}' among the characters from..k (0-based, inclusive)
Balance(s, from, k) ==
    Cardinality({j \in from..k : CharAt(s, j) = LBrace})
      - Cardinality({j \in from..k : CharAt(s, j) = RBrace})

\* indices at or after the marker where the running count is zero
ZeroAt(s) == {k \in FirstMarker(s)..(Len(s) - 1) : Balance(s, FirstMarker(s), k) = 0}

Least(S) == CHOOSE k \in S : \A h \in S : k <= h

\* A string-aware matcher: the 0-based index of the '}' that closes the object
\* opening at index i, where braces between two quotes neither open nor
\* close an object; -1 when the object is not closed.
RECURSIVE RefScan(_, _, _, _)
RefScan(s, i, depth, inString) ==
    IF i >= Len(s) THEN -1
    ELSE LET c == CharAt(s, i)
         IN  IF c = Quote THEN RefScan(s, i + 1, depth, ~inString)
             ELSE IF inString THEN RefScan(s, i + 1, depth, inString)
             ELSE IF c = LBrace THEN RefScan(s, i + 1, depth + 1, inString)
             ELSE IF c = RBrace
                  THEN IF depth = 1 THEN i ELSE RefScan(s, i + 1, depth - 1, inString)
             ELSE RefScan(s, i + 1, depth, inString)

RefEnd(s) == RefScan(s, FirstMarker(s), 0, FALSE)

\* the text embeds a well-formed JSON object beginning at the first marker
EmbedsObject(s) ==
    /\ HasMarker(s)
    /\ RefEnd(s) # -1
    /\ JsonParses(Substring(s, FirstMarker(s), RefEnd(s) + 1))

LoadFinished == pPc = "done" /\ outcome # ReadErrorMsg

\* C4 (as claimed): whenever the text embeds a well-formed JSON object at the
\* first marker, parseXzpMetadata resolves with exactly that object, i.e. the
\* extracted span ends at the brace the string-aware matcher finds.
C4_ExtractsEmbeddedObject ==
    (LoadFinished /\ EmbedsObject(text)) =>
        /\ outcome = "resolved"
        /\ startIndex = FirstMarker(text)
        /\ endIndex = RefEnd(text)

\* C5: the scan reads consecutive indices from the marker on, each once; the
\* promise is settled by exactly one call; and the outcome is decided by the
\* marker's presence, by whether the running brace count returns to zero, and
\* by whether the span up to the first such index is JSON.
C5_SinglePassOutcome ==
    /\ settleCalls <= 1
    /\ (outcome = "pending") = (settleCalls = 0)
    /\ \A k \in 1..Len(visited) : visited[k] = startIndex + (k - 1)
    /\ Len(visited) <= Len(text)
    /\ LoadFinished =>
        /\ settleCalls = 1
        /\ (outcome = NoBlockMsg) = ~HasMarker(text)
        /\ (outcome = NoEndMsg) = (HasMarker(text) /\ ZeroAt(text) = {})
        /\ (HasMarker(text) /\ ZeroAt(text) # {}) =>
              LET span == Substring(text, FirstMarker(text), Least(ZeroAt(text)) + 1)
              IN  /\ startIndex = FirstMarker(text)
                  /\ endIndex = Least(ZeroAt(text))
                  /\ (outcome = "resolved") = JsonParses(span)
                  /\ (outcome = BadJsonMsg) = ~JsonParses(span)

\* a load that resolved after scanning past a nested or quoted brace, with
\* the marker not at the start of the file
C5_Witness ==
    /\ LoadFinished
    /\ outcome = "resolved"
    /\ startIndex > 0
    /\ Len(visited) > Len(Marker) + 3

\* ------------------------------------------------------------------------
\* Reference notions for the code-exchange endpoint
\* ------------------------------------------------------------------------
HandlerFinished == hPc \in {"done", "threw"}

BodyHasNoCode(req) == IF req.body = NoBody THEN TRUE ELSE Falsy(req.body.code)

GithubRequestFailed(reply) ==
    \/ reply.kind = "throws"
    \/ /\ reply.kind = "reply"
       /\ \/ ~reply.ok
          \/ reply.json = NotJson
          \/ /\ reply.json # NotJson
             /\ (~Falsy(reply.json.error) \/ Falsy(reply.json.access_token))

BodyContains(body, v) == \E k \in DOMAIN body : body[k] = v

\* C10 (as claimed): every finished request got exactly one response, chosen
\* by the precedence 405 / 400 / 500 (configuration) / 500 (GitHub) / 200 with
\* only access_token; GitHub is contacted only in the last two cases; no
\* response body holds the client secret.
C10_OneResponseByPrecedence ==
    /\ \A k \in 1..Len(hResponses) :
          Falsy(hEnv.client_secret) \/ ~BodyContains(hResponses[k].body, hEnv.client_secret)
    /\ HandlerFinished =>
        /\ Len(hResponses) = 1
        /\ LET r == hResponses[1]
           IN  IF hReq.method # "POST"
               THEN r.status = 405 /\ hGithubCalls = <<>>
               ELSE IF BodyHasNoCode(hReq)
               THEN r.status = 400 /\ hGithubCalls = <<>>
               ELSE IF Falsy(hEnv.client_id) \/ Falsy(hEnv.client_secret)
               THEN r.status = 500 /\ hGithubCalls = <<>>
               ELSE /\ Len(hGithubCalls) = 1
                    /\ IF GithubRequestFailed(hGithubReply)
                       THEN r.status = 500
                       ELSE /\ r.status = 200
                            /\ r.body = [access_token |-> hGithubReply.json.access_token]

\* ------------------------------------------------------------------------
\* Reference notions for the queue and for createPullRequest
\* ------------------------------------------------------------------------
IsAlnum(c) == c \in AlnumChars

\* lower-case, then keep exactly the characters in [a-z0-9]
RefSan(s) == SelectSeq([k \in 1..Len(s) |-> LowerChar(s[k])], IsAlnum)

RefPrefix(type) ==
    CASE type = "background" -> "bg"
      [] type = "skin"       -> "skin"
      [] type = "coverflow"  -> "cf"

\* <prefix>.<san(author)>.<san(name)>
RefItemId(item) ==
    RefPrefix(item.type) \o "." \o Join(RefSan(item.author)) \o "." \o Join(RefSan(item.name))

RefPaths(item) ==
    LET id == RefItemId(item)
    IN  CASE item.type = "background" -> <<"repo/backgrounds/" \o id \o ".jpg">>
          [] item.type = "skin"       -> <<"repo/skins/" \o id \o ".xzp",
                                           "repo/skins/" \o id \o ".jpg">>
          [] item.type = "coverflow"  -> <<"repo/coverflows/" \o id \o ".cfljson",
                                           "repo/coverflows/" \o id \o ".jpg">>

ManifestIds ==
    {Manifest.backgrounds[k] : k \in DOMAIN Manifest.backgrounds}
      \cup {Manifest.coverflows[k] : k \in DOMAIN Manifest.coverflows}
      \cup {Manifest.skins[k] : k \in DOMAIN Manifest.skins}

QueuedItems == {submissionQueue[k] : k \in 1..Len(submissionQueue)}

\* the queue has grown by one item at its end
Enqueued == Len(submissionQueue') = Len(submissionQueue) + 1

\* the files of the items, items in order and each item's files in order
RECURSIVE RefFlatten(_)
RefFlatten(items) ==
    IF items = <<>> THEN <<>>
    ELSE RefFlatten(SubSeq(items, 1, Len(items) - 1)) \o items[Len(items)].files

IsPrefix(s, t) == Len(s) <= Len(t) /\ SubSeq(t, 1, Len(s)) = s

\* the remote calls of a whole run that started with these items on this branch
ExpectedCalls(items, branch) ==
    LET files == RefFlatten(items)
    IN  <<[op |-> "createFork"],
          [op |-> "getRepo"],
          [op |-> "getRef", owner |-> ForkOwner, ref |-> DefaultBranch],
          [op |-> "createRef", owner |-> ForkOwner, ref |-> branch]>>
        \o [k \in 1..Len(files) |->
              [op |-> "createOrUpdateFileContents", owner |-> ForkOwner, branch |-> branch,
               path |-> files[k].desiredPath, file |-> files[k].file]]
        \o <<[op |-> "pulls.create", owner |-> GITHUB_REPO_OWNER,
              head |-> <<ForkOwner, branch>>, base |-> GITHUB_TARGET_BRANCH,
              items |-> items]>>

Committed(branch, f) ==
    [branch |-> branch, path |-> f.desiredPath, file |-> f.file] \in contents

\* C1: the calls of every run are, in order, a prefix of: fork, repository
\* lookup, ref lookup, branch creation, one commit per file queued when the run
\* started (items in queue order, files in item order), pull request; a run
\* that is done has made them all; every pull request was opened after all
\* those files were committed to its head branch, with head
\* <forkOwner>:<branch> and base GITHUB_TARGET_BRANCH, at most one per run.
C1_CallOrder ==
    /\ \A r \in Runs :
          /\ IsPrefix(runLog[r], ExpectedCalls(runItems[r], runBranch[r]))
          /\ runPc[r] = "done" => runLog[r] = ExpectedCalls(runItems[r], runBranch[r])
    /\ Len(pulls) <= Cardinality({r \in Runs : runPc[r] = "done"})
    /\ \A k \in 1..Len(pulls) :
          /\ pulls[k].base = GITHUB_TARGET_BRANCH
          /\ pulls[k].head[1] = ForkOwner
          /\ pulls[k].head[2] \in refs
          /\ \A j \in 1..Len(RefFlatten(pulls[k].items)) :
                Committed(pulls[k].head[2], RefFlatten(pulls[k].items)[j])

\* a finished run that started with a one-file item and a two-file item
C1_Witness ==
    \E r \in Runs :
        /\ runPc[r] = "done"
        /\ Len(runItems[r]) = 2
        /\ Len(runLog[r]) = 8
        /\ Len(pulls) = 1

\* C2: the step at which a run fails shows an error status and changes
\* neither the queue nor anything remote; a failed run makes no further call;
\* and no step of any run ever takes back a fork, a branch, a commit or a
\* pull request.
C2_FailureStopsRun ==
    [][/\ \A r \in Runs :
            /\ (runPc[r] \in RemoteSteps /\ runPc'[r] = "failed") =>
                  /\ status' = "error"
                  /\ submissionQueue' = submissionQueue
                  /\ remoteVars' = remoteVars
                  /\ runLog' = runLog
            /\ runPc[r] = "failed" => (runPc'[r] = "failed" /\ runLog'[r] = runLog[r])
       /\ forkExists => forkExists'
       /\ refs \subseteq refs'
       /\ contents \subseteq contents'
       /\ IsPrefix(pulls, pulls')
      ]_vars

\* a run that failed after its branch held a commit, the queue still full
C2_Witness ==
    \E r \in Runs :
        /\ runPc[r] = "failed"
        /\ Len(runLog[r]) >= 5
        /\ contents # {}
        /\ submissionQueue # <<>>
        /\ status = "error"

C6_CanonicalIdentifier ==
    /\ [](\A item \in QueuedItems :
            /\ [k \in 1..Len(item.files) |-> item.files[k].desiredPath] = RefPaths(item)
            /\ item.type = "skin" =>
                  (item.name = item.metadata.skinname /\ item.author = item.metadata.author)
            /\ item.type = "coverflow" =>
                  (item.name = item.metadata.name /\ item.author = item.metadata.author))
    /\ [][Enqueued =>
            ~Exists(existingContentList, RefItemId(submissionQueue'[Len(submissionQueue')]))]_vars

\* a queue holding a skin and a background whose name needs both
\* lower-casing and stripping
C6_Witness ==
    /\ \E item \in QueuedItems : item.type = "skin"
    /\ \E item \in QueuedItems : item.type = "background" /\ item.name = <<"A", "-">>
                                    /\ item.author = <<"b", "7">>

\* C7 (as claimed): every queued item has a non-empty name and author and the
\* complete file set of its type
C7_OnlyValidatedItems ==
    \A item \in QueuedItems :
        /\ item.name # <<>>
        /\ item.author # <<>>
        /\ \A k \in 1..Len(item.files) : item.files[k].file # NoFile
        /\ item.type = "background" => Len(item.files) = 1
        /\ item.type = "skin" =>
              (Len(item.files) = 2 /\ item.website # "" /\ item.metadata # Null)
        /\ item.type = "coverflow" => (Len(item.files) = 2 /\ item.metadata # Null)

\* C8 (as claimed): when a run's success empties the queue, every item then
\* in the queue has all its files committed on the run's branch
C8_RemovedItemsWereCommitted ==
    [][\A r \in Runs :
          (runPc[r] = "createPull" /\ runPc'[r] = "done") =>
              \A item \in QueuedItems :
                  \A k \in 1..Len(item.files) : Committed(runBranch[r], item.files[k])
      ]_vars

\* ------------------------------------------------------------------------
\* Reference notions for browser storage
\* ------------------------------------------------------------------------
\* an HTTP response that was ok and whose body carries no error field
OkWithoutError(reply) ==
    /\ reply.kind = "response"
    /\ reply.status \in 200..299
    /\ "error" \notin DOMAIN reply.body

ExchangeJustSettled == exchangePending /\ ~exchangePending'

TokenJustRejected == authPc = "getAuthenticated" /\ lastReply'.kind = "token rejected"

NothingInMemory ==
    /\ submissionQueue = <<>>
    /\ currentSkinMetadata = Null
    /\ currentCoverflowMetadata = Null
    /\ existingContentList = <<>>

\* C9: storage holds nothing but the key github_token; storage changes only
\* when an exchange that was ok and carried no error stores its access_token
\* or when a rejected token is removed; an exchange that failed leaves
\* storage as it was; a rejected token is gone afterwards; and when a page
\* has loaded, the queue, the metadata and the manifest are empty
C9_OnlyTheTokenPersists ==
    /\ [](\A e \in localStorage : e.key = TokenKey)
    /\ [][localStorage' # localStorage =>
            \/ /\ ExchangeJustSettled
               /\ OkWithoutError(lastReply')
               /\ localStorage' = {[key |-> TokenKey, value |-> lastReply'.body.access_token]}
            \/ /\ TokenJustRejected
               /\ localStorage' = {}
         ]_vars
    /\ [][(ExchangeJustSettled /\ ~OkWithoutError(lastReply')) => localStorage' = localStorage]_vars
    /\ [][TokenJustRejected => GetItem(localStorage', TokenKey) = Undefined]_vars
    /\ [](authPc = "load" => NothingInMemory)

\* the page has been loaded again and an exchange has stored the token it
\* was given
C9_Witness ==
    /\ loads >= 1
    /\ OkWithoutError(lastReply)
    /\ localStorage = {[key |-> TokenKey, value |-> "gho_token"]}
    /\ uploadVisible

\* ------------------------------------------------------------------------
\* Reference notions for the size limits
\* ------------------------------------------------------------------------
Oversize(entry) == entry.file.size > entry.maxSize

QueueHasOversize ==
    \E item \in QueuedItems : \E k \in 1..Len(item.files) : Oversize(item.files[k])

Refused == submissionQueue = <<>> \/ QueueHasOversize

\* C11: the files of every started run are at least one and none is larger
\* than its maxSize, and whatever a branch holds is a file of the run that
\* made the branch; a run starts with no call made and from a queue that
\* passes; a click on Create Pull Request with an empty queue or a queue
\* holding an oversize file shows an error, starts no run, makes no remote
\* call and leaves the queue as it was
C11_OversizeNeverCommitted ==
    /\ [](\A r \in RunsStarted :
            /\ runFiles[r] # <<>>
            /\ \A k \in 1..Len(runFiles[r]) : ~Oversize(runFiles[r][k]))
    /\ [](\A c \in contents :
            \E r \in RunsStarted : \E k \in 1..Len(runFiles[r]) :
                /\ c.branch = runBranch[r]
                /\ c.path = runFiles[r][k].desiredPath
                /\ c.file = runFiles[r][k].file)
    /\ [][\A r \in Runs :
            (runPc[r] = "unused" /\ runPc'[r] # "unused") =>
                (~Refused /\ runLog'[r] = <<>> /\ runFiles'[r] = RefFlatten(submissionQueue))
         ]_vars
    /\ [][(CreatePullRequest /\ Refused) =>
            (status' = "error" /\ UNCHANGED <<prVars, submissionQueue>>)
         ]_vars

\* after one pull request was opened, the queue holds an oversize image, an
\* error is shown and no second run has started
C11_Witness ==
    /\ QueueHasOversize
    /\ status = "error"
    /\ \E r \in Runs : runPc[r] = "done"
    /\ Cardinality(RunsStarted) = 1
    /\ contents # {}

\* ------------------------------------------------------------------------
\* Reference notions for the numeric ids
\* ------------------------------------------------------------------------
\* the sequence without its k-th element
Without(seq, k) == SubSeq(seq, 1, k - 1) \o SubSeq(seq, k + 1, Len(seq))

\* C12: the ids of the queued items are pairwise distinct and less than
\* nextItemId; nextItemId never decreases; a click on a Remove button takes
\* exactly one item out of the queue and leaves the others in their order
C12_DistinctIds ==
    /\ [](\A i, j \in 1..Len(submissionQueue) :
            i # j => submissionQueue[i].id # submissionQueue[j].id)
    /\ [](\A k \in 1..Len(submissionQueue) : submissionQueue[k].id < nextItemId)
    /\ [][nextItemId' >= nextItemId]_vars
    /\ [][RemoveFromQueue =>
            \E k \in 1..Len(submissionQueue) : submissionQueue' = Without(submissionQueue, k)
         ]_vars

\* of two queued items the first was removed and the second is still there,
\* no pull request having been asked for
C12_Witness ==
    /\ Len(submissionQueue) = 1
    /\ submissionQueue[1].id = 1
    /\ nextItemId = 2
    /\ RunsStarted = {}

\* ------------------------------------------------------------------------
\* Reference notions for the metadata of a queued package
\* ------------------------------------------------------------------------
\* name and author as the package's metadata gives them
ParsedName(type, parsed) == IF type = "skin" THEN parsed.skinname ELSE parsed.name

\* the item is what its own package file parses to
FromOwnPackage(item) ==
    LET parsed == item.files[1].file.parsed
    IN  /\ item.metadata = parsed
        /\ item.name = ParsedName(item.type, parsed)
        /\ item.author = parsed.author
        /\ item.files[1].desiredPath = RefPaths(item)[1]

\* C13 (as claimed): metadata that is held is the parse result of the file
\* selected in the input, and every queued skin or coverflow has the
\* metadata, name, author and identifier of its own package file
C13_MetadataOfSelectedFile ==
    /\ currentSkinMetadata # Null =>
            (skinFile # NoFile /\ currentSkinMetadata = skinFile.parsed)
    /\ currentCoverflowMetadata # Null =>
            (coverflowFile # NoFile /\ currentCoverflowMetadata = coverflowFile.parsed)
    /\ \A item \in QueuedItems : item.type \in {"skin", "coverflow"} => FromOwnPackage(item)

\* ------------------------------------------------------------------------
\* Reference notions for the paths of the queue
\* ------------------------------------------------------------------------
QueuedFiles == RefFlatten(submissionQueue)

\* C14 (as claimed): no two files of the queue have the same desiredPath
C14_DistinctPaths ==
    \A i, j \in 1..Len(QueuedFiles) :
        i # j => QueuedFiles[i].desiredPath # QueuedFiles[j].desiredPath

====
